---- MODULE Spec2Model ----
(***************************************************************************)
(* A model of the competition-management backend in src/python.py: four   *)
(* SQLite tables (users, competitions, competitors,                        *)
(* competition_competitors), the seed loader run by init_db, and the HTTP  *)
(* handlers, each of which runs one or two statements on a per-request     *)
(* connection that is closed (uncommitted work discarded) at teardown.     *)
(*                                                                         *)
(* A table is the sequence of its rows in rowid order.  Uniqueness of the  *)
(* primary key is not built into the representation: it is whatever the    *)
(* INSERT / UPDATE operators below enforce, as SQLite enforces it.         *)
(***************************************************************************)
EXTENDS Integers, Sequences, FiniteSets, TLC

\* Python None, which sqlite3 binds as SQL NULL.
None == "<None>"
\* No exception.
NoError == ""

\* Longest seed document (number of records) that is enumerated.
MaxDocLen == 2
\* Number of HTTP requests served after startup.
MaxRequests == 3

(***************************************************************************)
(* SQLite semantics used by the statements of the program.                 *)
(***************************************************************************)

\* The comparison a = b of SQL: never true when either side is NULL.
SqlEq(a, b) == a # None /\ b # None /\ a = b

\* Two primary-key tuples collide in the PRIMARY KEY index.  These are
\* ordinary rowid tables whose key columns are TEXT without NOT NULL, so a
\* key with a NULL column collides with nothing.
PkConflict(k1, k2) == \A i \in DOMAIN k1 : SqlEq(k1[i], k2[i])

\* The PRIMARY KEY columns declared by the CREATE TABLE statements.
PrimaryKey(table, r) ==
    CASE table = "users" -> <<r.password>>
      [] table = "competitions" -> <<r.name>>
      [] table = "competitors" -> <<r.id>>
      [] table = "competition_competitors" -> <<r.competition_name, r.competitor_id>>

HasConflict(t, table, row) ==
    \E i \in DOMAIN t : PkConflict(PrimaryKey(table, t[i]), PrimaryKey(table, row))

\* INSERT INTO t VALUES row.
SqlInsert(t, table, row, msg) ==
    IF HasConflict(t, table, row)
    THEN [error |-> msg, t |-> t]
    ELSE [error |-> NoError, t |-> Append(t, row)]

\* INSERT OR IGNORE INTO t VALUES row.
SqlInsertOrIgnore(t, table, row) ==
    IF HasConflict(t, table, row) THEN t ELSE Append(t, row)

\* DELETE FROM t WHERE col = val.
SqlDelete(t, col, val) == SelectSeq(t, LAMBDA r : ~SqlEq(r[col], val))

\* UPDATE t SET <the columns of set> WHERE col = val.  The statement
\* aborts, leaving t as it was, when an updated row collides with another.
SqlUpdate(t, table, col, val, set, msg) ==
    LET Matches(r) == SqlEq(r[col], val)
        Updated(r) == [f \in DOMAIN r |-> IF f \in DOMAIN set THEN set[f] ELSE r[f]]
        t2 == [i \in DOMAIN t |-> IF Matches(t[i]) THEN Updated(t[i]) ELSE t[i]]
    IN  IF \E i, j \in DOMAIN t :
              i # j /\ Matches(t[i]) /\ PkConflict(PrimaryKey(table, t2[i]),
                                            PrimaryKey(table, t2[j]))
        THEN [error |-> msg, t |-> t]
        ELSE [error |-> NoError, t |-> t2]

\* SELECT * FROM t WHERE col = val.
SqlSelect(t, col, val) == SelectSeq(t, LAMBDA r : SqlEq(r[col], val))

\* The rows of a sequence-valued function flattened into one sequence.
RECURSIVE Flatten(_)
Flatten(ss) ==
    IF ss = <<>> THEN <<>> ELSE Head(ss) \o Flatten(Tail(ss))

(***************************************************************************)
(* Connections.  A connection sees its own uncommitted work; commit makes  *)
(* it durable; closing the connection discards what was not committed.     *)
(***************************************************************************)

get_db(database) == [committed |-> database, working |-> database]

commit(conn) == [committed |-> conn.working, working |-> conn.working]

close_connection_autocommit(conn) == conn.working

close_connection(conn) == conn.committed

EmptyDb ==
    [users |-> <<>>, competitions |-> <<>>, competitors |-> <<>>,
     competition_competitors |-> <<>>]

(***************************************************************************)
(* The seed loader.  A seed file is [exists, parses, items]: whether       *)
(* os.path.exists finds it, whether json.load accepts it, and the items of *)
(* the parsed object in document order, each [key, details] with details a *)
(* JSON object (a function on the names it has).                           *)
(***************************************************************************)

DefaultUsers == <<[password |-> "admin", role |-> "admin"]>>

DefaultCompetitions ==
    << [name |-> "Winter Grand Prix", date |-> "March 1, 2025",
        location |-> "London, UK",
        description |-> "The inaugural Winter Grand Prix in the heart of London.",
        status |-> "Completed"],
       [name |-> "Spring Cup Championship", date |-> "May 15, 2025",
        location |-> "Paris, France",
        description |-> "An exciting championship for upcoming talents.",
        status |-> "Upcoming"],
       [name |-> "Summer Open", date |-> "July 20, 2025",
        location |-> "Tokyo, Japan",
        description |-> "The biggest event of the year.",
        status |-> "Upcoming"] >>

DefaultCompetitors ==
    << [id |-> "COMP-001", name |-> "Alex Smith", nationality |-> "American",
        status |-> "Active"],
       [id |-> "COMP-002", name |-> "Maria Garcia", nationality |-> "Spanish",
        status |-> "Active"],
       [id |-> "COMP-003", name |-> "Kenji Tanaka", nationality |-> "Japanese",
        status |-> "Active"] >>

DefaultCompetitionCompetitors ==
    << [competition_name |-> "Winter Grand Prix", competitor_id |-> "COMP-001"],
       [competition_name |-> "Winter Grand Prix", competitor_id |-> "COMP-002"],
       [competition_name |-> "Spring Cup Championship", competitor_id |-> "COMP-001"],
       [competition_name |-> "Summer Open", competitor_id |-> "COMP-003"] >>

\* cursor.executemany("INSERT OR IGNORE ...", rows)
RECURSIVE ExecuteManyOrIgnore(_, _, _)
ExecuteManyOrIgnore(t, table, rows) ==
    IF rows = <<>> THEN t
    ELSE ExecuteManyOrIgnore(SqlInsertOrIgnore(t, table, Head(rows)), table,
                             Tail(rows))

load_default_data(database) ==
    LET conn == get_db(database)
        w    == conn.working
        w2   == [users |-> ExecuteManyOrIgnore(w.users, "users", DefaultUsers),
                 competitions |->
                     ExecuteManyOrIgnore(w.competitions, "competitions",
                                         DefaultCompetitions),
                 competitors |->
                     ExecuteManyOrIgnore(w.competitors, "competitors",
                                         DefaultCompetitors),
                 competition_competitors |->
                     ExecuteManyOrIgnore(w.competition_competitors,
                                         "competition_competitors",
                                         DefaultCompetitionCompetitors)]
    IN  close_connection(commit([conn EXCEPT !.working = w2]))

Has(details, names) == names \subseteq DOMAIN details

\* The loops of load_initial_data thread st = [error, db]: the exception
\* raised so far (NoError if none) and the connection's working copy.
RECURSIVE LoadUsers(_, _)
LoadUsers(st, items) ==
    IF st.error # NoError \/ items = <<>> THEN st
    ELSE LET password == Head(items).key
             details  == Head(items).details
         IN  IF ~Has(details, {"role"})
             THEN [st EXCEPT !.error = "KeyError"]
             ELSE LoadUsers(
                    [st EXCEPT !.db.users =
                        SqlInsertOrIgnore(@, "users",
                                          [password |-> password,
                                           role |-> details.role])],
                    Tail(items))

RECURSIVE LoadCompetitorIds(_, _, _)
LoadCompetitorIds(t, name, ids) ==
    IF ids = <<>> THEN t
    ELSE LoadCompetitorIds(
            SqlInsertOrIgnore(t, "competition_competitors",
                              [competition_name |-> name,
                               competitor_id |-> Head(ids)]),
            name, Tail(ids))

RECURSIVE LoadCompetitions(_, _)
LoadCompetitions(st, items) ==
    IF st.error # NoError \/ items = <<>> THEN st
    ELSE LET details == Head(items).details
         IN  IF ~Has(details, {"name", "date", "location", "description", "status"})
             THEN [st EXCEPT !.error = "KeyError"]
             ELSE LET row == [name |-> details.name, date |-> details.date,
                              location |-> details.location,
                              description |-> details.description,
                              status |-> details.status]
                      st1 == [st EXCEPT !.db.competitions =
                                 SqlInsertOrIgnore(@, "competitions", row)]
                      st2 == IF "competitor_ids" \in DOMAIN details
                             THEN [st1 EXCEPT !.db.competition_competitors =
                                      LoadCompetitorIds(@, details.name,
                                                        details.competitor_ids)]
                             ELSE st1
                  IN  LoadCompetitions(st2, Tail(items))

RECURSIVE LoadCompetitors(_, _)
LoadCompetitors(st, items) ==
    IF st.error # NoError \/ items = <<>> THEN st
    ELSE LET details == Head(items).details
         IN  IF ~Has(details, {"id", "name", "nationality", "status"})
             THEN [st EXCEPT !.error = "KeyError"]
             ELSE LoadCompetitors(
                    [st EXCEPT !.db.competitors =
                        SqlInsertOrIgnore(@, "competitors",
                                          [id |-> details.id,
                                           name |-> details.name,
                                           nationality |-> details.nationality,
                                           status |-> details.status])],
                    Tail(items))

\* with open(file) as f: data = json.load(f)
OpenJson(st, file) ==
    IF st.error # NoError THEN st
    ELSE IF ~file.exists THEN [st EXCEPT !.error = "FileNotFoundError"]
    ELSE IF ~file.parses THEN [st EXCEPT !.error = "JSONDecodeError"]
    ELSE st

\* A loader that takes each file as it finds it and commits after each.
load_initial_data_per_file(database, files) ==
    LET conn == get_db(database)
        Start(c, file) == OpenJson([error |-> NoError, db |-> c.working], file)
        Done(c, st) == IF st.error = NoError
                       THEN commit([c EXCEPT !.working = st.db])
                       ELSE c
        c1 == Done(conn, LoadUsers(Start(conn, files.users), files.users.items))
        c2 == Done(c1, LoadCompetitions(Start(c1, files.competitions),
                                        files.competitions.items))
        c3 == Done(c2, LoadCompetitors(Start(c2, files.competitors),
                                       files.competitors.items))
    IN  [ok |-> files.users.exists /\ files.competitions.exists
                /\ files.competitors.exists,
         database |-> close_connection(c3)]

\* Returns [ok, database]: the value returned and the file database after
\* the function's own app context (hence its connection) is torn down.
load_initial_data(database, files) ==
    LET conn == get_db(database)
    IN  IF ~files.users.exists \/ ~files.competitions.exists
           \/ ~files.competitors.exists
        THEN [ok |-> FALSE, database |-> close_connection(conn)]
        ELSE LET st0 == [error |-> NoError, db |-> conn.working]
                 st1 == LoadUsers(OpenJson(st0, files.users), files.users.items)
                 st2 == LoadCompetitions(OpenJson(st1, files.competitions),
                                         files.competitions.items)
                 st3 == LoadCompetitors(OpenJson(st2, files.competitors),
                                        files.competitors.items)
                 c3  == [conn EXCEPT !.working = st3.db]
             IN  IF st3.error = NoError
                 THEN [ok |-> TRUE, database |-> close_connection(commit(c3))]
                 ELSE [ok |-> FALSE, database |-> close_connection(c3)]

\* A startup that loads the default seed whatever the files gave.
init_db_always_default(database, files) ==
    LET conn    == get_db(database)
        created == close_connection(commit([conn EXCEPT !.working = EmptyDb]))
        loaded  == load_initial_data(created, files)
    IN  load_default_data(loaded.database)

\* DROP TABLE IF EXISTS x4, CREATE TABLE IF NOT EXISTS x4, commit, then
\* the seed from the files or else the default seed.
init_db(database, files) ==
    LET conn    == get_db(database)
        created == close_connection(commit([conn EXCEPT !.working = EmptyDb]))
        loaded  == load_initial_data(created, files)
    IN  IF loaded.ok THEN loaded.database
        ELSE load_default_data(loaded.database)

(***************************************************************************)
(* The request handlers.  Each is a function of the file database and the  *)
(* request's fields that yields the response and the file database left    *)
(* behind once the request's connection has been closed at teardown.       *)
(***************************************************************************)

jsonify(success, message) ==
    [status |-> 200, success |-> success, message |-> message]

\* The response goes out and teardown_appcontext closes the connection.
Respond(conn, response) ==
    [database |-> close_connection(conn), resp |-> response]

login(database, password) ==
    LET conn == get_db(database)
        rows == SqlSelect(conn.working.users, "password", password)
    IN  IF rows # <<>>
        THEN Respond(conn, [status |-> 200, success |-> TRUE,
                            message |-> "Login successful.",
                            role |-> Head(rows).role])
        ELSE Respond(conn, jsonify(FALSE, "Invalid password."))

\* try: INSERT; commit; success  except IntegrityError: failure
InsertHandler(database, table, row, okMessage, failMessage) ==
    LET conn == get_db(database)
        ins  == SqlInsert(conn.working[table], table, row, "IntegrityError")
    IN  IF ins.error = NoError
        THEN Respond(commit([conn EXCEPT !.working[table] = ins.t]),
                     jsonify(TRUE, okMessage))
        ELSE Respond(conn, jsonify(FALSE, failMessage))

signup(database, password) ==
    InsertHandler(database, "users",
                  [password |-> password, role |-> "general"],
                  "User created successfully. You can now log in.",
                  "User already exists.")

get_users(database) ==
    LET conn == get_db(database)
    IN  Respond(conn, [status |-> 200, body |-> conn.working.users])

add_user(database, password, role) ==
    InsertHandler(database, "users", [password |-> password, role |-> role],
                  "User added successfully.", "User already exists.")

\* DELETE; commit; success
DeleteHandler(database, table, col, val, okMessage) ==
    LET conn == get_db(database)
        t    == SqlDelete(conn.working[table], col, val)
    IN  Respond(commit([conn EXCEPT !.working[table] = t]),
                jsonify(TRUE, okMessage))

remove_user(database, password) ==
    DeleteHandler(database, "users", "password", password,
                  "User removed successfully.")

get_competitions(database) ==
    LET conn == get_db(database)
    IN  Respond(conn, [status |-> 200, body |-> conn.working.competitions])

add_competition(database, data) ==
    InsertHandler(database, "competitions",
                  [name |-> data.name, date |-> data.date,
                   location |-> data.location,
                   description |-> data.description, status |-> "Upcoming"],
                  "Competition added successfully.",
                  "Competition with this name already exists.")

\* A delete that also removes the association rows of the competition.
remove_competition_cascade(database, name) ==
    LET conn == get_db(database)
        w    == conn.working
        w2   == [w EXCEPT !.competitions = SqlDelete(@, "name", name),
                 !.competition_competitors =
                     SqlDelete(@, "competition_name", name)]
    IN  Respond(commit([conn EXCEPT !.working = w2]),
                jsonify(TRUE, "Competition removed successfully."))

remove_competition(database, name) ==
    DeleteHandler(database, "competitions", "name", name,
                  "Competition removed successfully.")

edit_competition(database, data) ==
    LET conn == get_db(database)
        upd  == SqlUpdate(conn.working.competitions, "competitions",
                          "name", data.original_name,
                          [name |-> data.new_name, date |-> data.new_date,
                           location |-> data.new_location,
                           description |-> data.new_description,
                           status |-> data.new_status],
                          "UNIQUE constraint failed: competitions.name")
    IN  IF upd.error = NoError
        THEN Respond(commit([conn EXCEPT !.working.competitions = upd.t]),
                     jsonify(TRUE, "Competition updated successfully."))
        ELSE Respond(conn, jsonify(FALSE, upd.error))

get_competition_competitors(database, competition_name) ==
    LET conn == get_db(database)
        cs   == conn.working.competitors
        ccs  == SqlSelect(conn.working.competition_competitors,
                          "competition_name", competition_name)
        \* FROM competitors c JOIN competition_competitors cc ON c.id = cc.competitor_id
        rows == Flatten([i \in DOMAIN cs |->
                    LET m == SqlSelect(ccs, "competitor_id", cs[i].id)
                    IN  [j \in DOMAIN m |-> [name |-> cs[i].name,
                                             nationality |-> cs[i].nationality]]])
    IN  Respond(conn, [status |-> 200, body |-> rows])

\* Python's "not x" for a JSON string or null.
Falsy(x) == x = None \/ x = ""

\* The handler without its check that both fields are given.
add_competitor_to_competition_unchecked(database, competition_name, competitor_id) ==
    InsertHandler(database, "competition_competitors",
                  [competition_name |-> competition_name,
                   competitor_id |-> competitor_id],
                  "Competitor assigned successfully.",
                  "Competitor is already assigned to this competition.")

add_competitor_to_competition(database, competition_name, competitor_id) ==
    LET conn == get_db(database)
        ins  == SqlInsert(conn.working.competition_competitors,
                          "competition_competitors",
                          [competition_name |-> competition_name,
                           competitor_id |-> competitor_id],
                          "IntegrityError")
    IN  IF Falsy(competition_name) \/ Falsy(competitor_id)
        THEN [database |-> database,
              resp |-> jsonify(FALSE, "Competition name and competitor ID are required.")]
        ELSE IF ins.error = NoError
        THEN Respond(commit([conn EXCEPT !.working.competition_competitors = ins.t]),
                     jsonify(TRUE, "Competitor assigned successfully."))
        ELSE Respond(conn, jsonify(FALSE,
                        "Competitor is already assigned to this competition."))

get_competitors(database) ==
    LET conn == get_db(database)
    IN  Respond(conn, [status |-> 200, body |-> conn.working.competitors])

\* A profile lookup that reports "not found" when the join is empty.
get_competitor_profile_by_join(database, competitor_id) ==
    LET conn == get_db(database)
        found == SqlSelect(conn.working.competitors, "id", competitor_id)
        cs  == conn.working.competitions
        ccs == SqlSelect(conn.working.competition_competitors,
                         "competitor_id", competitor_id)
        \* FROM competitions c JOIN competition_competitors cc ON c.name = cc.competition_name
        competitions ==
            Flatten([i \in DOMAIN cs |->
                LET m == SqlSelect(ccs, "competition_name", cs[i].name)
                IN  [j \in DOMAIN m |-> [name |-> cs[i].name, date |-> cs[i].date,
                                         location |-> cs[i].location]]])
    IN  IF found = <<>> \/ competitions = <<>>
        THEN Respond(conn, [status |-> 404, success |-> FALSE,
                            message |-> "Competitor not found."])
        ELSE Respond(conn, [status |-> 200,
                            body |-> [id |-> Head(found).id,
                                      name |-> Head(found).name,
                                      nationality |-> Head(found).nationality,
                                      status |-> Head(found).status,
                                      competitions |-> competitions]])

get_competitor_profile(database, competitor_id) ==
    LET conn == get_db(database)
        found == SqlSelect(conn.working.competitors, "id", competitor_id)
        cs  == conn.working.competitions
        ccs == SqlSelect(conn.working.competition_competitors,
                         "competitor_id", competitor_id)
        \* FROM competitions c JOIN competition_competitors cc ON c.name = cc.competition_name
        competitions ==
            Flatten([i \in DOMAIN cs |->
                LET m == SqlSelect(ccs, "competition_name", cs[i].name)
                IN  [j \in DOMAIN m |-> [name |-> cs[i].name, date |-> cs[i].date,
                                         location |-> cs[i].location]]])
    IN  IF found = <<>>
        THEN Respond(conn, [status |-> 404, success |-> FALSE,
                            message |-> "Competitor not found."])
        ELSE Respond(conn, [status |-> 200,
                            body |-> [id |-> Head(found).id,
                                      name |-> Head(found).name,
                                      nationality |-> Head(found).nationality,
                                      status |-> Head(found).status,
                                      competitions |-> competitions]])

add_competitor(database, data) ==
    InsertHandler(database, "competitors",
                  [id |-> data.id, name |-> data.name,
                   nationality |-> data.nationality, status |-> data.status],
                  "Competitor added successfully.",
                  "Competitor with this ID already exists.")

\* A delete that also removes the association rows of the competitor.
remove_competitor_cascade(database, comp_id) ==
    LET conn == get_db(database)
        w    == conn.working
        w2   == [w EXCEPT !.competitors = SqlDelete(@, "id", comp_id),
                 !.competition_competitors =
                     SqlDelete(@, "competitor_id", comp_id)]
    IN  Respond(commit([conn EXCEPT !.working = w2]),
                jsonify(TRUE, "Competitor removed successfully."))

remove_competitor(database, comp_id) ==
    DeleteHandler(database, "competitors", "id", comp_id,
                  "Competitor removed successfully.")

edit_competitor(database, data) ==
    LET conn == get_db(database)
        upd1 == SqlUpdate(conn.working.competitors, "competitors",
                          "id", data.original_id,
                          [name |-> data.new_name, id |-> data.new_id,
                           nationality |-> data.new_nationality,
                           status |-> data.new_status],
                          "UNIQUE constraint failed: competitors.id")
        conn1 == [conn EXCEPT !.working.competitors = upd1.t]
        upd2 == SqlUpdate(conn1.working.competition_competitors,
                          "competition_competitors",
                          "competitor_id", data.original_id,
                          [competitor_id |-> data.new_id],
                          "UNIQUE constraint failed: competition_competitors.competition_name, competition_competitors.competitor_id")
        conn2 == [conn1 EXCEPT !.working.competition_competitors = upd2.t]
    IN  IF upd1.error # NoError
        THEN Respond(conn, jsonify(FALSE, upd1.error))
        ELSE IF upd2.error # NoError
        THEN Respond(conn1, jsonify(FALSE, upd2.error))
        ELSE Respond(commit(conn2),
                     jsonify(TRUE, "Competitor updated successfully."))

(***************************************************************************)
(* The state machine: the process starts (init_db) and then serves         *)
(* requests one at a time.                                                 *)
(***************************************************************************)

VARIABLES
    database,   \* the committed content of database.db
    files,      \* users.json, competitions.json, competitors.json at startup
    pc,         \* "boot" before init_db has run, "serving" after
    req,        \* the last request served
    resp,       \* the response to it
    prev,       \* the content of database.db when that request arrived
    served      \* number of requests served

vars == <<database, files, pc, req, resp, prev, served>>

\* Sequences over S of length at most n.
BSeq(S, n) == UNION {[1..k -> S] : k \in 0..n}

NoFile == [exists |-> FALSE, parses |-> FALSE, items |-> <<>>]
BadFile == [exists |-> TRUE, parses |-> FALSE, items |-> <<>>]
JsonFile(items) == [exists |-> TRUE, parses |-> TRUE, items |-> items]

\* The items of an object whose i-th name is i and whose i-th value is ds[i].
Items(ds) == [i \in DOMAIN ds |-> [key |-> i, details |-> ds[i]]]

UserItems ==
    { [key |-> "admin", details |-> [role |-> "admin"]],
      [key |-> "pw1", details |-> [role |-> "general"]],
      [key |-> "pw1", details |-> [hint |-> "no role"]] }

CompetitionDetails ==
    { [name |-> "Winter Grand Prix", date |-> "March 1, 2025",
       location |-> "London, UK",
       description |-> "The inaugural Winter Grand Prix in the heart of London.",
       status |-> "Completed", competitor_ids |-> <<"COMP-001">>],
      [name |-> "City Open", date |-> "June 9, 2026", location |-> "Oslo, Norway",
       description |-> "A new event.", status |-> "Upcoming"],
      [name |-> "City Open", date |-> "June 10, 2026", location |-> "Oslo, Norway",
       description |-> "A new event.", status |-> "Upcoming",
       competitor_ids |-> <<"COMP-001", "COMP-077">>],
      [name |-> "City Open", location |-> "Oslo, Norway"] }

CompetitorDetails ==
    { [id |-> "COMP-001", name |-> "Alex Smith", nationality |-> "American",
       status |-> "Active"],
      [id |-> "COMP-077", name |-> "Sam Lee", nationality |-> "Korean",
       status |-> "Active"],
      [id |-> "COMP-077", name |-> "Ana Ruiz", nationality |-> "Chilean",
       status |-> "Retired"],
      [id |-> "COMP-077", name |-> "Sam Lee"] }

\* A parsed JSON object has each name once.
DistinctKeys(items) ==
    \A i, j \in DOMAIN items : i # j => items[i].key # items[j].key

UsersFiles ==
    {NoFile, BadFile}
      \cup {JsonFile(items) : items \in {x \in BSeq(UserItems, MaxDocLen) : DistinctKeys(x)}}

CompetitionsFiles ==
    {NoFile, BadFile}
      \cup {JsonFile(Items(ds)) : ds \in BSeq(CompetitionDetails, MaxDocLen)}

CompetitorsFiles ==
    {NoFile, BadFile}
      \cup {JsonFile(Items(ds)) : ds \in BSeq(CompetitorDetails, MaxDocLen)}

\* What database.db may hold from an earlier run when the process starts.
StaleDb ==
    [EmptyDb EXCEPT !.users = <<[password |-> "old", role |-> "admin"]>>,
                    !.competition_competitors =
                        <<[competition_name |-> "Old Cup", competitor_id |-> "COMP-001"]>>]

\* No seed files at all, and one small set of seed files.
NoFiles == [users |-> NoFile, competitions |-> NoFile, competitors |-> NoFile]

SmallFiles ==
    [users |-> JsonFile(<<[key |-> "pw1", details |-> [role |-> "general"]]>>),
     competitions |->
        JsonFile(Items(<<[name |-> "City Open", date |-> "June 10, 2026",
                          location |-> "Oslo, Norway",
                          description |-> "A new event.", status |-> "Upcoming",
                          competitor_ids |-> <<"COMP-001", "COMP-099">>]>>)),
     competitors |->
        JsonFile(Items(<<[id |-> "COMP-001", name |-> "Alex Smith",
                          nationality |-> "American", status |-> "Active"]>>))]

\* The values the requests are drawn from.
Passwords == {"admin", "pw1", None}
Roles == {"admin", "general"}
CompetitionNames == {"Winter Grand Prix", "City Open", None}
CompetitorIds == {"COMP-001", "COMP-099", None}
PathNames == CompetitionNames \ {None}
PathIds == CompetitorIds \ {None}
CompetitionFields ==
    [date |-> "August 2, 2026", location |-> "Lima, Peru",
     description |-> "Rescheduled.", status |-> "Cancelled"]
CompetitorFields ==
    [name |-> "Sam Lee", nationality |-> "Korean", status |-> "Retired"]

InitCommon ==
    /\ database \in {EmptyDb, StaleDb}
    /\ pc = "boot"
    /\ req = [op |-> "none"]
    /\ resp = [status |-> 0]
    /\ prev = EmptyDb
    /\ served = 0

Init == InitCommon /\ files \in {NoFiles, SmallFiles}

InitSeed ==
    /\ InitCommon
    /\ files \in [users : UsersFiles, competitions : CompetitionsFiles,
                  competitors : CompetitorsFiles]

\* if __name__ == '__main__': init_db()
InitDb ==
    /\ pc = "boot"
    /\ database' = init_db(database, files)
    /\ pc' = "serving"
    /\ prev' = database
    /\ req' = [op |-> "init_db"]
    /\ UNCHANGED <<files, resp, served>>

\* One request r served with outcome out = [database, resp].
Serve(r, out) ==
    /\ pc = "serving"
    /\ served < MaxRequests
    /\ database' = out.database
    /\ resp' = out.resp
    /\ req' = r
    /\ prev' = database
    /\ served' = served + 1
    /\ UNCHANGED <<files, pc>>

POST_login ==
    \E p \in Passwords :
        Serve([op |-> "login", password |-> p], login(database, p))

POST_signup ==
    \E p \in Passwords :
        Serve([op |-> "signup", password |-> p], signup(database, p))

GET_users == Serve([op |-> "get_users"], get_users(database))

POST_users_add ==
    \E p \in Passwords, r \in Roles :
        Serve([op |-> "add_user", password |-> p, role |-> r],
              add_user(database, p, r))

POST_users_remove ==
    \E p \in Passwords :
        Serve([op |-> "remove_user", password |-> p], remove_user(database, p))

GET_competitions == Serve([op |-> "get_competitions"], get_competitions(database))

POST_competitions_add ==
    \E n \in CompetitionNames :
        LET data == [name |-> n, date |-> CompetitionFields.date,
                     location |-> CompetitionFields.location,
                     description |-> CompetitionFields.description]
        IN  Serve([op |-> "add_competition", data |-> data],
                  add_competition(database, data))

POST_competitions_remove ==
    \E n \in CompetitionNames :
        Serve([op |-> "remove_competition", name |-> n],
              remove_competition(database, n))

POST_competitions_edit ==
    \E o \in CompetitionNames, n \in CompetitionNames :
        LET data == [original_name |-> o, new_name |-> n,
                     new_date |-> CompetitionFields.date,
                     new_location |-> CompetitionFields.location,
                     new_description |-> CompetitionFields.description,
                     new_status |-> CompetitionFields.status]
        IN  Serve([op |-> "edit_competition", data |-> data],
                  edit_competition(database, data))

GET_competition_competitors ==
    \E n \in PathNames :
        Serve([op |-> "get_competition_competitors", competition_name |-> n],
              get_competition_competitors(database, n))

POST_competitions_add_competitor ==
    \E n \in CompetitionNames, i \in CompetitorIds :
        Serve([op |-> "add_competitor_to_competition",
               competition_name |-> n, competitor_id |-> i],
              add_competitor_to_competition(database, n, i))

GET_competitors == Serve([op |-> "get_competitors"], get_competitors(database))

GET_competitor_profile ==
    \E i \in PathIds :
        Serve([op |-> "get_competitor_profile", competitor_id |-> i],
              get_competitor_profile(database, i))

POST_competitors_add ==
    \E i \in CompetitorIds :
        LET data == [id |-> i, name |-> CompetitorFields.name,
                     nationality |-> CompetitorFields.nationality,
                     status |-> CompetitorFields.status]
        IN  Serve([op |-> "add_competitor", data |-> data],
                  add_competitor(database, data))

POST_competitors_remove ==
    \E i \in CompetitorIds :
        Serve([op |-> "remove_competitor", id |-> i],
              remove_competitor(database, i))

POST_competitors_edit ==
    \E o \in CompetitorIds, n \in CompetitorIds :
        LET data == [original_id |-> o, new_id |-> n,
                     new_name |-> CompetitorFields.name,
                     new_nationality |-> CompetitorFields.nationality,
                     new_status |-> CompetitorFields.status]
        IN  Serve([op |-> "edit_competitor", data |-> data],
                  edit_competitor(database, data))

Next ==
    \/ InitDb
    \/ POST_login
    \/ POST_signup
    \/ GET_users
    \/ POST_users_add
    \/ POST_users_remove
    \/ GET_competitions
    \/ POST_competitions_add
    \/ POST_competitions_remove
    \/ POST_competitions_edit
    \/ GET_competition_competitors
    \/ POST_competitions_add_competitor
    \/ GET_competitors
    \/ GET_competitor_profile
    \/ POST_competitors_add
    \/ POST_competitors_remove
    \/ POST_competitors_edit

Spec == Init /\ [][Next]_vars

\* Startup over all the enumerated seed files, followed by reads.
NextSeed == InitDb \/ GET_users

SpecSeed == InitSeed /\ [][NextSeed]_vars

(***************************************************************************)
(* Properties.                                                             *)
(***************************************************************************)

Rows(t) == {t[i] : i \in DOMAIN t}

Tables == {"users", "competitions", "competitors", "competition_competitors"}

Assoc(c, i) == [competition_name |-> c, competitor_id |-> i]

DefaultDb ==
    [users |-> DefaultUsers, competitions |-> DefaultCompetitions,
     competitors |-> DefaultCompetitors,
     competition_competitors |-> DefaultCompetitionCompetitors]

\* The competition names that occur in the association table before or
\* after the last request, and those a path can name.
AssocNames ==
    {r.competition_name :
        r \in Rows(prev.competition_competitors)
                \cup Rows(database.competition_competitors)} \cup PathNames

\* The last request was a successful edit_competitor that changed the id
\* of a competitor that existed to another id (both ids strings).
C1_Renamed ==
    /\ pc = "serving"
    /\ req.op = "edit_competitor"
    /\ resp.success
    /\ req.data.original_id # None /\ req.data.new_id # None
    /\ req.data.new_id # req.data.original_id
    /\ \E r \in Rows(prev.competitors) : r.id = req.data.original_id

\* C1: after a successful edit_competitor that changes original_id to
\* new_id, (c, new_id) is an association row iff (c, original_id) was one,
\* no row with original_id remains, and the competitors listed for c
\* include the renamed competitor's data for exactly those c.
C1_EditPropagatesExactly ==
    C1_Renamed =>
        LET o == req.data.original_id
            n == req.data.new_id
            renamed == [name |-> req.data.new_name,
                        nationality |-> req.data.new_nationality]
        IN  /\ \A c \in AssocNames :
                  Assoc(c, n) \in Rows(database.competition_competitors)
                     <=> Assoc(c, o) \in Rows(prev.competition_competitors)
            /\ \A r \in Rows(database.competition_competitors) :
                  r.competitor_id # o
            /\ \A c \in PathNames :
                  renamed \in Rows(get_competition_competitors(database, c).resp.body)
                     <=> Assoc(c, o) \in Rows(prev.competition_competitors)

InsertOps == {"signup", "add_user", "add_competition", "add_competitor"}

\* The table an insert request writes and the key it gives.
InsertTable(r) ==
    CASE r.op \in {"signup", "add_user"} -> "users"
      [] r.op = "add_competition" -> "competitions"
      [] r.op = "add_competitor" -> "competitors"

GivenKey(r) ==
    CASE r.op \in {"signup", "add_user"} -> <<r.password>>
      [] r.op = "add_competition" -> <<r.data.name>>
      [] r.op = "add_competitor" -> <<r.data.id>>

\* C2: an insert (signup, users/add, competitions/add, competitors/add)
\* whose key is already the key of a row answers success:false and leaves
\* the store, hence the existing row, as it was.
C2_DuplicateInsertRejected ==
    (/\ pc = "serving"
     /\ req.op \in InsertOps
     /\ \E r \in Rows(prev[InsertTable(req)]) :
            PrimaryKey(InsertTable(req), r) = GivenKey(req))
    => (resp.success = FALSE /\ database = prev)

\* The last request removed a competitor id that no row carried.
C3_RemovedAbsent ==
    /\ pc = "serving"
    /\ req.op = "remove_competitor"
    /\ \A r \in Rows(prev.competitors) : r.id # req.id

\* C3: removing a competitor id that is not in the table answers
\* success:true and changes none of the four tables, and removing an id a
\* second time changes nothing more.
C3_RemoveAbsentIsNoOp ==
    /\ C3_RemovedAbsent =>
          /\ resp.status = 200 /\ resp.success = TRUE
          /\ database = prev
    /\ (pc = "serving" /\ req.op = "remove_competitor") =>
          LET again == remove_competitor(database, req.id)
          IN  again.database = database /\ again.resp.success = TRUE

C3_Witness ==
    /\ C3_RemovedAbsent
    /\ req.id = "COMP-001"
    /\ database.competitors # <<>>

\* C4: the profile of an id is 404 with success:false exactly when no
\* competitor row has that id; otherwise it is the row's fields and the
\* competitions associated with the id.
C4_Profile404IffAbsent ==
    (pc = "serving" /\ req.op = "get_competitor_profile") =>
        LET id == req.competitor_id
            rows == {r \in Rows(database.competitors) : r.id = id}
        IN  /\ database = prev
            /\ rows = {} <=> resp.status = 404
            /\ resp.status = 404 => resp.success = FALSE
            /\ rows # {} =>
                 /\ resp.status = 200
                 /\ \E r \in rows :
                      /\ resp.body.id = r.id
                      /\ resp.body.name = r.name
                      /\ resp.body.nationality = r.nationality
                      /\ resp.body.status = r.status
                 /\ Rows(resp.body.competitions) =
                      {[name |-> c.name, date |-> c.date, location |-> c.location] :
                          c \in {x \in Rows(database.competitions) :
                                   Assoc(x.name, id)
                                     \in Rows(database.competition_competitors)}}

\* COMP-001 is in both seeds, so it is absent only once removed or renamed.
C4_Witness ==
    /\ pc = "serving"
    /\ req.op = "get_competitor_profile"
    /\ req.competitor_id = "COMP-001"
    /\ resp.status = 404

SomeFileMissing ==
    ~files.users.exists \/ ~files.competitions.exists \/ ~files.competitors.exists

\* C5: with one of the three seed files missing, the store after startup
\* is exactly the default dataset, whatever the other files hold, and
\* GET /api/users lists the single row admin/admin.
C5_SeedAllOrNothing ==
    (pc = "serving" /\ SomeFileMissing) =>
        /\ database = DefaultDb
        /\ req.op = "get_users" =>
              resp.body = <<[password |-> "admin", role |-> "admin"]>>

C5_Witness ==
    /\ pc = "serving"
    /\ ~files.competitors.exists
    /\ files.users.parses /\ Len(files.users.items) = 2
    /\ files.competitions.parses /\ files.competitions.items # <<>>
    /\ req.op = "get_users"

AllFilesExist == ~SomeFileMissing

\* Every file parses and every record has the fields the loader reads.
FilesWellFormed ==
    /\ files.users.parses /\ files.competitions.parses /\ files.competitors.parses
    /\ \A i \in DOMAIN files.users.items :
          Has(files.users.items[i].details, {"role"})
    /\ \A i \in DOMAIN files.competitions.items :
          Has(files.competitions.items[i].details,
              {"name", "date", "location", "description", "status"})
    /\ \A i \in DOMAIN files.competitors.items :
          Has(files.competitors.items[i].details,
              {"id", "name", "nationality", "status"})

\* The rows the records of the three documents describe, in document
\* order (records that lack a field describe no row).
ContentOf(table) ==
    CASE table = "users" ->
           LET its == SelectSeq(files.users.items,
                                LAMBDA it : Has(it.details, {"role"}))
           IN  [i \in DOMAIN its |-> [password |-> its[i].key,
                                      role |-> its[i].details.role]]
      [] table = "competitions" ->
           LET its == SelectSeq(files.competitions.items,
                                LAMBDA it : Has(it.details,
                                    {"name", "date", "location", "description", "status"}))
           IN  [i \in DOMAIN its |->
                   [name |-> its[i].details.name, date |-> its[i].details.date,
                    location |-> its[i].details.location,
                    description |-> its[i].details.description,
                    status |-> its[i].details.status]]
      [] table = "competitors" ->
           LET its == SelectSeq(files.competitors.items,
                                LAMBDA it : Has(it.details,
                                    {"id", "name", "nationality", "status"}))
           IN  [i \in DOMAIN its |->
                   [id |-> its[i].details.id, name |-> its[i].details.name,
                    nationality |-> its[i].details.nationality,
                    status |-> its[i].details.status]]
      [] table = "competition_competitors" ->
           LET its == SelectSeq(files.competitions.items,
                                LAMBDA it : Has(it.details,
                                    {"name", "date", "location", "description",
                                     "status", "competitor_ids"}))
           IN  Flatten([i \in DOMAIN its |->
                   [j \in DOMAIN its[i].details.competitor_ids |->
                       Assoc(its[i].details.name,
                             its[i].details.competitor_ids[j])]])

\* Table t holds exactly the rows of the sequence rows, a row whose key
\* repeats that of an earlier one being ignored.
HoldsExactly(t, table, rows) ==
    LET first == {i \in DOMAIN rows :
                    \A j \in 1..(i - 1) :
                        PrimaryKey(table, rows[j]) # PrimaryKey(table, rows[i])}
    IN  /\ Rows(t) = {rows[i] : i \in first}
        /\ Len(t) = Cardinality(first)

C7_AddCompetitorToCompetition ==
    (pc = "serving" /\ req.op = "add_competitor_to_competition") =>
        LET pair == Assoc(req.competition_name, req.competitor_id)
            fails == \/ req.competition_name = None
                     \/ req.competitor_id = None
                     \/ pair \in Rows(prev.competition_competitors)
        IN  /\ fails =>
                /\ resp.success = FALSE
                /\ database.competition_competitors = prev.competition_competitors
            /\ ~fails =>
                /\ resp.success = TRUE
                /\ database.competition_competitors =
                      Append(prev.competition_competitors, pair)

\* A pair is added although no competitor row has the id.
C7_Witness ==
    /\ pc = "serving"
    /\ req.op = "add_competitor_to_competition"
    /\ resp.success = TRUE
    /\ Len(database.competition_competitors) = Len(prev.competition_competitors) + 1
    /\ \A r \in Rows(database.competitors) : r.id # req.competitor_id

\* C8: in every state the program serves from, no two rows of a table
\* have the same primary key, and an edit that renames a competition or a
\* competitor onto a key another row has answers success:false.
C8_PrimaryKeysUnique ==
    pc = "serving" =>
        /\ \A table \in Tables :
              \A i, j \in DOMAIN database[table] :
                  i # j => PrimaryKey(table, database[table][i])
                             # PrimaryKey(table, database[table][j])
        /\ (/\ req.op = "edit_competition"
            /\ req.data.new_name # req.data.original_name
            /\ \E r \in Rows(prev.competitions) : r.name = req.data.original_name
            /\ \E r \in Rows(prev.competitions) : r.name = req.data.new_name)
           => resp.success = FALSE
        /\ (/\ req.op = "edit_competitor"
            /\ req.data.new_id # req.data.original_id
            /\ \E r \in Rows(prev.competitors) : r.id = req.data.original_id
            /\ \E r \in Rows(prev.competitors) : r.id = req.data.new_id)
           => resp.success = FALSE

\* C9: remove_competition and remove_competitor leave the association
\* table exactly as it was.
C9_DeletesDoNotCascade ==
    (pc = "serving" /\ req.op \in {"remove_competition", "remove_competitor"}) =>
        /\ resp.success = TRUE
        /\ database.competition_competitors = prev.competition_competitors

\* A competition that had association rows was deleted and they remain.
C9_Witness ==
    /\ pc = "serving"
    /\ req.op = "remove_competition"
    /\ \E r \in Rows(prev.competitions) : r.name = req.name
    /\ \A r \in Rows(database.competitions) : r.name # req.name
    /\ \E r \in Rows(database.competition_competitors) :
          r.competition_name = req.name

\* C10: an edit_competitor that answers success:false leaves the store as
\* it was, and no edit_competitor leaves a competitor row renamed while
\* association rows still carry the original id.
C10_EditCompetitorAtomic ==
    (pc = "serving" /\ req.op = "edit_competitor") =>
        /\ resp.success = FALSE => database = prev
        /\ (/\ req.data.new_id # req.data.original_id
            /\ database.competitors # prev.competitors)
           => \A r \in Rows(database.competition_competitors) :
                  r.competitor_id # req.data.original_id

\* The second statement failed after the first had renamed the row.
C10_Witness ==
    /\ pc = "serving"
    /\ req.op = "edit_competitor"
    /\ resp.success = FALSE
    /\ resp.message # "UNIQUE constraint failed: competitors.id"
    /\ \E r \in Rows(database.competitors) : r.id = req.data.original_id

====
